---- MODULE Spec2Model ----
(***************************************************************************)
(* The HTTP front end of the varnish agent (src/modules/http.c): the       *)
(* listener registry, the per-request connection state driven by the       *)
(* transport's repeated calls of answer_to_connection, the Basic-auth      *)
(* gate, and the construction of responses.                                *)
(*                                                                         *)
(* C strings are sequences of one-character strings where the code looks   *)
(* at single characters (URLs, the Authorization value, body bytes) and    *)
(* TLA+ strings where it only copies or compares them whole.  A pointer is *)
(* a sequence of length 0 (NULL) or 1 (the object pointed to).             *)
(***************************************************************************)
EXTENDS Integers, Sequences, FiniteSets, TLC

VARIABLES
    listener,          \* http->listener: the route list, head first
    help_page,         \* http->help_page: NULL or the cached text
    r_arg,             \* core->config->r_arg: read-only mode
    con_cls,           \* *con_cls: NULL or the connection_info_struct
    phase,             \* the transport's position in the current request
    req,               \* the request the transport is delivering
    chunks,            \* the body chunks the transport has offered so far
    upload_data_size,  \* *upload_data_size as the last call left it
    ret,               \* what the last call of answer_to_connection returned
    responses,         \* the responses handed to MHD_queue_response, per call
    invoked,           \* the handler calls made for the current request
    aborted,           \* an assert()/AZ()/AN() has ended the process
    cur_resp,          \* NULL or the http_response a handler is building
    added,             \* the http_add_header calls made on it, in call order
    response,          \* NULL or what send_response handed to the transport
    hpc,               \* per dispatcher thread: its position in the help branch
    hdata,             \* per dispatcher thread: the page make_help returned to it
    hbody              \* per dispatcher thread: the body of its help response

builder_vars == <<cur_resp, added, response>>
help_vars == <<hpc, hdata, hbody>>

vars == <<listener, help_page, r_arg, con_cls, phase, req, chunks,
          upload_data_size, ret, responses, invoked, aborted,
          builder_vars, help_vars>>

----------------------------------------------------------------------------
(* Bounds of the model *)

MaxRoutes == 2
MaxChunks == 3
MaxHeaders == 3
MaxThreads == 2
MaxRoutesRouting == 3

Threads == 1..MaxThreads

----------------------------------------------------------------------------
(* Pointers and C strings *)

NULL == <<>>
Ptr(x) == <<x>>
Deref(p) == p[1]

NUL == "NUL"

RECURSIVE Str(_)
Str(s) == IF s = <<>> THEN "" ELSE Head(s) \o Str(Tail(s))

Min(a, b) == IF a < b THEN a ELSE b

\* strncmp(s, t, n) == 0 on NUL-terminated strings
strncmp_eq(s, t, n) == SubSeq(s, 1, Min(n, Len(s))) = SubSeq(t, 1, Min(n, Len(t)))

STARTS_WITH(string, match) == strncmp_eq(string, match, Len(match))

----------------------------------------------------------------------------
(* The inputs the environment draws from *)

MethodNames == {"GET", "HEAD", "PUT", "OPTIONS", "PATCH"}

Urls == { <<"/">>,
          <<"/", "a", "/", "/">>,
          <<"/", "a", "/", "/", "b">>,
          <<"/", "a", "/", "b", "/", "x">>,
          <<"/", "a", "b">> }

BasicScheme == <<"B", "a", "s", "i", "c", " ">>
auth_token == <<"t", "k">>

AuthHeaders == { NULL,
                 Ptr(BasicScheme \o auth_token),
                 Ptr(BasicScheme \o <<"n", "o">>),
                 Ptr(<<"T", "o", "k", "e", "n", " ">> \o auth_token) }

OriginHeaders == { NULL, Ptr("http://o") }

Requests == [method : MethodNames, url : Urls,
             Authorization : AuthHeaders, Origin : OriginHeaders]

NoRequest == [method |-> "", url |-> <<>>, Authorization |-> NULL, Origin |-> NULL]

\* the request body, which the transport offers two bytes at a time
BodyBytes == <<"a", "b", "c", "d", "e", "f", "g", "h", "i", "j", "k", "l">>

\* the chunk offered after n chunks
NextChunk(n) == <<BodyBytes[2 * n + 1], BodyBytes[2 * n + 2]>>

\* the routes the application may register: (url, method mask)
RouteArgs == { [url |-> <<"/", "a">>,           method |-> {"M_GET", "M_PUT"}],
               [url |-> <<"/", "a", "/", "b">>, method |-> {"M_GET"}],
               [url |-> <<"/", "a", "b">>,      method |-> {"M_GET", "M_OPTIONS"}] }

----------------------------------------------------------------------------
(* parse_method *)

parse_method(method) ==
    CASE method = "GET"     -> "M_GET"
      [] method = "POST"    -> "M_POST"
      [] method = "PUT"     -> "M_PUT"
      [] method = "DELETE"  -> "M_DELETE"
      [] method = "OPTIONS" -> "M_OPTIONS"
      [] method = "HEAD"    -> "M_GET"
      [] OTHER              -> "M_UNKNOWN"

----------------------------------------------------------------------------
(* The vsb calls the dispatcher makes.  A vsb is its buffer and whether     *)
(* VSB_finish has been called.  Writing to or finishing a finished vsb is   *)
(* refused by the library; it is reported here as the call failing (-1),   *)
(* and the dispatcher's AZ() on the result then ends the process.           *)

VSB_new_auto == [s_buf |-> <<>>, finished |-> FALSE]

VSB_bcat(s, buf) ==
    IF s.finished THEN [ret |-> -1, s |-> s]
    ELSE [ret |-> 0, s |-> [s EXCEPT !.s_buf = @ \o buf]]

VSB_putc(s, c) ==
    IF s.finished THEN [ret |-> -1, s |-> s]
    ELSE [ret |-> 0, s |-> [s EXCEPT !.s_buf = Append(@, c)]]

VSB_finish(s) ==
    IF s.finished THEN [ret |-> -1, s |-> s]
    ELSE [ret |-> 0, s |-> [s EXCEPT !.finished = TRUE]]

VSB_data(s) == s.s_buf
VSB_len(s) == Len(s.s_buf)

----------------------------------------------------------------------------
(* Headers of the request, and the Auth Gate *)

http_get_header(connection, key) ==
    CASE key = "Authorization" -> connection.Authorization
      [] key = "Origin"        -> connection.Origin
      [] OTHER                 -> NULL

\* token = auth + sizeof "Basic"
auth_token_of(auth) == SubSeq(auth, Len(BasicScheme) + 1, Len(auth))

\* a faulty variant: a request without an Authorization header passes
check_auth_header_optional(connection, con_info) ==
    IF con_info.authed = 0
    THEN LET auth == http_get_header(connection, "Authorization")
         IN IF auth = NULL
            THEN [ret |-> 0, con_info |-> con_info]
            ELSE IF ~strncmp_eq(Deref(auth), BasicScheme, Len(BasicScheme))
            THEN [ret |-> 1, con_info |-> con_info]
            ELSE LET info == IF auth_token = auth_token_of(Deref(auth))
                             THEN [con_info EXCEPT !.authed = 1]
                             ELSE con_info
                 IN [ret |-> IF info.authed = 0 THEN 1 ELSE 0, con_info |-> info]
    ELSE [ret |-> 0, con_info |-> con_info]

\* a faulty variant: the token is not compared
check_auth_scheme_only(connection, con_info) ==
    IF con_info.authed = 0
    THEN LET auth == http_get_header(connection, "Authorization")
         IN IF auth = NULL \/ ~strncmp_eq(Deref(auth), BasicScheme, Len(BasicScheme))
            THEN [ret |-> 1, con_info |-> con_info]
            ELSE [ret |-> 0, con_info |-> con_info]
    ELSE [ret |-> 0, con_info |-> con_info]

\* a faulty variant: the header is read on every call and decides the flag
check_auth_every_call(connection, con_info) ==
    LET auth == http_get_header(connection, "Authorization")
        ok == /\ auth # NULL
              /\ strncmp_eq(Deref(auth), BasicScheme, Len(BasicScheme))
              /\ auth_token = auth_token_of(Deref(auth))
    IN [ret |-> IF ok THEN 0 ELSE 1,
        con_info |-> [con_info EXCEPT !.authed = IF ok THEN 1 ELSE 0]]

\* the value check_auth returns and the con_info it leaves
check_auth(connection, con_info) ==
    IF con_info.authed = 0
    THEN LET auth == http_get_header(connection, "Authorization")
         IN IF auth = NULL \/ ~strncmp_eq(Deref(auth), BasicScheme, Len(BasicScheme))
            THEN [ret |-> 1, con_info |-> con_info]
            ELSE LET info == IF auth_token = auth_token_of(Deref(auth))
                             THEN [con_info EXCEPT !.authed = 1]
                             ELSE con_info
                 IN [ret |-> IF info.authed = 0 THEN 1 ELSE 0, con_info |-> info]
    ELSE [ret |-> 0, con_info |-> con_info]

----------------------------------------------------------------------------
(* The Response Builder *)

http_mkresp(conn, status, body) ==
    [connection |-> conn, headers |-> <<>>, status |-> status, data |-> body,
     ndata |-> IF body # NULL THEN Len(Deref(body)) ELSE 0]

\* a faulty variant: the new header goes to the end of the list
http_add_header_append(resp, key, value) ==
    [resp EXCEPT !.headers = Append(@, [key |-> key, value |-> value])]

\* hdr->next = resp->headers; resp->headers = hdr
http_add_header(resp, key, value) ==
    [resp EXCEPT !.headers = <<[key |-> key, value |-> value]>> \o @]

\* a faulty variant: the Origin header is not echoed
allow_origin_any(origin) == "*"

\* the value of Access-Control-Allow-Origin
allow_origin(origin) == IF origin # NULL THEN Deref(origin) ELSE "*"

\* what send_response hands to MHD_queue_response
send_response(resp) ==
    [status |-> resp.status, data |-> resp.data, ndata |-> resp.ndata,
     headers |-> resp.headers \o
        << [key |-> "Access-Control-Allow-Headers", value |-> "Authorization, Origin"],
           [key |-> "Access-Control-Allow-Methods",
            value |-> "GET, POST, PUT, DELETE, OPTIONS"],
           [key |-> "Access-Control-Allow-Origin",
            value |-> allow_origin(http_get_header(resp.connection, "Origin"))] >>]

http_reply_len(conn, status, data, data_size) ==
    send_response([connection |-> conn, headers |-> <<>>, status |-> status,
                   data |-> data, ndata |-> data_size])

http_reply(conn, status, data) ==
    http_reply_len(conn, status, data, IF data # NULL THEN Len(Deref(data)) ELSE 0)

AUTH_BODY ==
    "Authorize, please.\n\nIf Varnish Agent was installed from packages, the "
    \o "/etc/varnish/agent_secret file contains generated credentials.\n"

send_auth_response(connection) ==
    send_response(http_add_header(http_mkresp(connection, 401, Ptr(AUTH_BODY)),
                                  "WWW-Authenticate", "Basic realm=varnish-agent"))

----------------------------------------------------------------------------
(* The Listener Registry *)

\* the list after http_register_path(core, url, method, cb, data)
http_register_path(http_listener, url, method, cb) ==
    <<[url |-> url, method |-> method, cb |-> cb]>> \o http_listener

\* STARTS_WITH(request->url, lp->url) && (lp->method & request->method)
listener_selects(lp, request) ==
    STARTS_WITH(request.url, lp.url) /\ request.method \in lp.method

\* a faulty variant: only the first '/' after the prefix is skipped
skip_slashes_one(arg) ==
    IF arg # <<>> /\ Head(arg) = "/" THEN Tail(arg) ELSE arg

RECURSIVE skip_slashes(_)
skip_slashes(arg) ==
    IF arg # <<>> /\ Head(arg) = "/" THEN skip_slashes(Tail(arg)) ELSE arg

\* a faulty variant: the character after the prefix is not looked at
listener_arg_any(url, lp_url) ==
    LET arg == SubSeq(url, Len(lp_url) + 1, Len(url))
        rest == skip_slashes_one(arg)
    IN [continue |-> FALSE, arg |-> IF rest = <<>> THEN NULL ELSE Ptr(rest)]

\* arg of find_listener for a selected listener: continue, or the
\* remainder handed to the callback (NULL when nothing is left)
listener_arg(url, lp_url) ==
    LET arg == SubSeq(url, Len(lp_url) + 1, Len(url))
    IN IF arg = <<>> THEN [continue |-> FALSE, arg |-> NULL]
       ELSE IF Head(arg) # "/" THEN [continue |-> TRUE, arg |-> NULL]
       ELSE LET rest == skip_slashes(arg)
            IN [continue |-> FALSE,
                arg |-> IF rest = <<>> THEN NULL ELSE Ptr(rest)]

\* lp->cb(request, arg, lp->data): the handler queues one response itself
cb(request, arg) == <<http_reply(request.connection, 200, Ptr("OK"))>>

RECURSIVE find_listener_from(_, _)
find_listener_from(lps, request) ==
    IF lps = <<>> THEN [ret |-> 0, calls |-> <<>>, responses |-> <<>>]
    ELSE LET lp == Head(lps)
             m == listener_arg(request.url, lp.url)
         IN IF listener_selects(lp, request) /\ ~m.continue
            THEN [ret |-> 1,
                  calls |-> <<[cb |-> lp.cb, arg |-> m.arg, body |-> request.body,
                               bodylen |-> request.bodylen]>>,
                  responses |-> cb(request, m.arg)]
            ELSE find_listener_from(Tail(lps), request)

RECURSIVE Reverse(_)
Reverse(q) == IF q = <<>> THEN <<>> ELSE Append(Reverse(Tail(q)), Head(q))

\* a faulty variant: the list is walked from the route registered first
find_listener_oldest_first(request, http_listener) ==
    find_listener_from(Reverse(http_listener), request)

\* a faulty variant: of the routes that match, the one with the longest
\* prefix is called
find_listener_longest_prefix(request, http_listener) ==
    LET sel == {i \in 1..Len(http_listener) :
                   /\ listener_selects(http_listener[i], request)
                   /\ ~listener_arg(request.url, http_listener[i].url).continue}
    IN IF sel = {} THEN find_listener_from(<<>>, request)
       ELSE LET best == CHOOSE i \in sel : \A j \in sel :
                           \/ Len(http_listener[i].url) > Len(http_listener[j].url)
                           \/ Len(http_listener[i].url) = Len(http_listener[j].url) /\ i <= j
            IN find_listener_from(<<http_listener[best]>>, request)

find_listener(request, http_listener) == find_listener_from(http_listener, request)

----------------------------------------------------------------------------
(* The Help Page Generator *)

HELP_TEXT ==
    "This is the varnish agent.\n\n"
    \o "GET requests never modify state\n"
    \o "POST requests are not idempotent, and can modify state\n"
    \o "PUT requests are idempotent, and can modify state\n"
    \o "HEAD requests can be performed on all resources that support GET\n"
    \o "\nThe following URLs are bound:\n\n"

\* printf's %-Ns
RECURSIVE PadRight(_, _)
PadRight(str, width) ==
    IF Len(str) >= width THEN str ELSE PadRight(str \o " ", width)

help_line(lp) ==
    " - " \o PadRight(Str(lp.url), 20)
    \o " " \o PadRight(IF "M_GET" \in lp.method THEN "GET" ELSE "", 3)
    \o " " \o PadRight(IF "M_PUT" \in lp.method THEN "PUT" ELSE "", 3)
    \o " " \o PadRight(IF "M_POST" \in lp.method THEN "POST" ELSE "", 4)
    \o " " \o (IF "M_DELETE" \in lp.method THEN "DELETE" ELSE "")
    \o "\n"

RECURSIVE help_lines(_)
help_lines(lps) ==
    IF lps = <<>> THEN "" ELSE help_line(Head(lps)) \o help_lines(Tail(lps))

\* The pointers make_help can return.  Each realloc leaves one spare byte
\* for the closing "\n"; with no listener the strdup'ed buffer has none and
\* the strcat writes one byte past it, which the build may run through or
\* die on (NULL here).
make_help(http_listener) ==
    {Ptr(HELP_TEXT \o help_lines(http_listener) \o "\n")}
    \cup (IF http_listener = <<>> THEN {NULL} ELSE {})

----------------------------------------------------------------------------
(* The Request Dispatcher *)

\* a faulty variant: OPTIONS is not exempt from read-only mode
read_only_rejects_options(ro, method) ==
    ro /\ method # "M_GET"

\* a faulty variant: only the methods that are known to write are rejected
read_only_rejects_writes(ro, method) ==
    ro /\ method \in {"M_POST", "M_PUT", "M_DELETE"}

\* core->config->r_arg && method != M_GET && method != M_OPTIONS
read_only_rejects(ro, method) ==
    ro /\ method # "M_GET" /\ method # "M_OPTIONS"

\* One way a call of answer_to_connection can end: the state it leaves, the
\* responses it queued, the handlers it called, and whether an assertion
\* ended the process (then nothing else of the call is observed).
Outcome(cls, hp, r, size, resps, calls) ==
    [con_cls |-> cls, help_page |-> hp, ret |-> r, upload_data_size |-> size,
     responses |-> resps, invoked |-> calls, aborted |-> FALSE]

\* `what` names the assertion that failed
Abort(cls, hp, size, what) ==
    [con_cls |-> cls, help_page |-> hp, ret |-> what, upload_data_size |-> size,
     responses |-> <<>>, invoked |-> <<>>, aborted |-> TRUE]

\* a faulty variant: each chunk starts the buffer anew
append_chunk_overwrite(con_info, upload_data) ==
    IF con_info.req_body # NULL
    THEN LET b == VSB_bcat(VSB_new_auto, upload_data)
         IN [failed |-> b.ret # 0,
             con_info |-> [con_info EXCEPT !.req_body = Ptr(b.s)]]
    ELSE [failed |-> FALSE, con_info |-> con_info]

\* if (con_info->req_body) AZ(VSB_bcat(con_info->req_body, upload_data, size))
append_chunk(con_info, upload_data) ==
    IF con_info.req_body # NULL
    THEN LET b == VSB_bcat(Deref(con_info.req_body), upload_data)
         IN [failed |-> b.ret # 0,
             con_info |-> [con_info EXCEPT !.req_body = Ptr(b.s)]]
    ELSE [failed |-> FALSE, con_info |-> con_info]

\* if (con_info->req_body) { VSB_putc; VSB_finish; body; bodylen } else ...
finish_body(con_info) ==
    IF con_info.req_body # NULL
    THEN LET p == VSB_putc(Deref(con_info.req_body), NUL)
             f == VSB_finish(p.s)
         IN [failed |-> p.ret # 0 \/ f.ret # 0,
             con_info |-> [con_info EXCEPT !.req_body = Ptr(f.s)],
             body |-> Ptr(VSB_data(f.s)),
             bodylen |-> VSB_len(f.s) - 1]
    ELSE [failed |-> FALSE, con_info |-> con_info, body |-> NULL, bodylen |-> 0]

\* a faulty variant: the page is built for every request
help_page_missing_always(hp) == TRUE

\* if (http->help_page == NULL)
help_page_missing(hp) == hp = NULL

\* the branches after the body is finished: preflight, auth, routes, help, 500
dispatch(connection, method, url, fin, http_listener, hp) ==
    IF method = "M_OPTIONS"
    THEN {Outcome(Ptr(fin.con_info), hp, "MHD_queue_response", 0,
                  <<http_reply(connection, 200, NULL)>>, <<>>)}
    ELSE LET ca == check_auth(connection, fin.con_info)
             request == [connection |-> connection, url |-> url, method |-> method,
                         body |-> fin.body, bodylen |-> fin.bodylen]
             found == find_listener(request, http_listener)
         IN IF ca.ret # 0
            THEN {Outcome(Ptr(ca.con_info), hp, "MHD_YES", 0,
                          <<send_auth_response(connection)>>, <<>>)}
            ELSE IF found.ret # 0
            THEN {Outcome(Ptr(ca.con_info), hp, "MHD_YES", 0,
                          found.responses, found.calls)}
            ELSE IF method = "M_GET" /\ url = <<"/">>
            THEN { IF page = NULL
                   THEN Abort(Ptr(ca.con_info), page, 0, "make_help: write past the buffer")
                   ELSE Outcome(Ptr(ca.con_info), page, "MHD_queue_response", 0,
                                <<http_reply(connection, 200, page)>>, <<>>) :
                   page \in IF help_page_missing(hp) THEN make_help(http_listener) ELSE {hp} }
            ELSE {Outcome(Ptr(ca.con_info), hp, "MHD_queue_response", 0,
                          <<http_reply(connection, 500, Ptr("Failed"))>>, <<>>)}

\* a faulty variant: the first call only allocates the state and leaves
\* the authentication to the finalize call
new_con_info_auth_later(connection) == [req_body |-> NULL, authed |-> 0]

\* a faulty variant: the body buffer is allocated whatever check_auth says
new_con_info_always_body(connection) ==
    LET ca == check_auth(connection, [req_body |-> NULL, authed |-> 0])
    IN [ca.con_info EXCEPT !.req_body = Ptr(VSB_new_auto)]

\* the first call: ALLOC_OBJ(con_info); if (check_auth == 0) VSB_new_auto()
new_con_info(connection) ==
    LET ca == check_auth(connection, [req_body |-> NULL, authed |-> 0])
    IN IF ca.ret = 0
       THEN [ca.con_info EXCEPT !.req_body = Ptr(VSB_new_auto)]
       ELSE ca.con_info

\* the ways one call of answer_to_connection can end
answer_to_connection(connection, ro, http_listener, hp, cls, upload_data) ==
    LET method == parse_method(connection.method)
        size == Len(upload_data)
    IN IF cls = NULL
       THEN {Outcome(Ptr(new_con_info(connection)), hp, "MHD_YES", size, <<>>, <<>>)}
       ELSE IF read_only_rejects(ro, method)
       THEN {Outcome(cls, hp, "MHD_queue_response", size,
                     <<http_reply(connection, 405, Ptr("Read-only mode"))>>, <<>>)}
       ELSE IF size # 0
       THEN LET app == append_chunk(Deref(cls), upload_data)
            IN IF app.failed
               THEN {Abort(cls, hp, size, "AZ(VSB_bcat)")}
               ELSE {Outcome(Ptr(app.con_info), hp, "MHD_YES", 0, <<>>, <<>>)}
       ELSE LET fin == finish_body(Deref(cls))
            IN IF fin.failed
               THEN {Abort(cls, hp, size, "AZ(VSB_putc)")}
               ELSE dispatch(connection, method, connection.url, fin, http_listener, hp)

\* request_completed: the state is released and *con_cls reset
request_completed(cls) == NULL

----------------------------------------------------------------------------
(* The state machine *)

Init ==
    /\ listener = <<>>
    /\ help_page = NULL
    /\ r_arg \in BOOLEAN
    /\ con_cls = NULL
    /\ phase = "idle"
    /\ req = NoRequest
    /\ chunks = <<>>
    /\ upload_data_size = 0
    /\ ret = "none"
    /\ responses = <<>>
    /\ invoked = <<>>
    /\ aborted = FALSE
    /\ cur_resp = NULL
    /\ added = <<>>
    /\ response = NULL
    /\ hpc = [t \in Threads |-> "idle"]
    /\ hdata = [t \in Threads |-> NULL]
    /\ hbody = [t \in Threads |-> NULL]

\* the application registers a route (no dispatch call is in progress)
HttpRegisterPath ==
    /\ ~aborted
    /\ phase = "idle"
    /\ \A t \in Threads : hpc[t] = "idle"
    /\ Len(listener) < MaxRoutes
    /\ \E a \in RouteArgs :
          listener' = http_register_path(listener, a.url, a.method, Len(listener) + 1)
    /\ UNCHANGED <<help_page, r_arg, con_cls, phase, req, chunks,
                   upload_data_size, ret, responses, invoked, aborted>>
    /\ UNCHANGED <<builder_vars, help_vars>>

\* the transport has parsed the headers of the next request
NewRequest ==
    /\ ~aborted
    /\ phase = "idle"
    /\ \E r \in Requests : req' = r
    /\ phase' = "first"
    /\ UNCHANGED <<listener, help_page, r_arg, con_cls, chunks,
                   upload_data_size, ret, responses, invoked, aborted>>
    /\ UNCHANGED <<builder_vars, help_vars>>

\* the transport calls answer_to_connection; `call` names the kind of call
Call(call, upload_data) ==
    \E out \in answer_to_connection(req, r_arg, listener, help_page, con_cls, upload_data) :
        /\ con_cls' = out.con_cls
        /\ help_page' = out.help_page
        /\ ret' = out.ret
        /\ upload_data_size' = out.upload_data_size
        /\ responses' = responses \o
              [i \in 1..Len(out.responses) |-> [call |-> call, r |-> out.responses[i]]]
        /\ invoked' = invoked \o
              [i \in 1..Len(out.invoked) |->
                  [call |-> call, authed |-> Deref(out.con_cls).authed,
                   cb |-> out.invoked[i].cb, arg |-> out.invoked[i].arg,
                   body |-> out.invoked[i].body, bodylen |-> out.invoked[i].bodylen]]
        /\ aborted' = out.aborted

\* the call made when the headers are in: no upload data yet
HeaderCall ==
    /\ ~aborted
    /\ phase = "first"
    /\ Call("first", <<>>)
    /\ phase' = "body"
    /\ UNCHANGED <<listener, r_arg, req, chunks>>
    /\ UNCHANGED <<builder_vars, help_vars>>

\* a call offering a piece of the request body
BodyChunkCall ==
    /\ ~aborted
    /\ phase = "body"
    /\ Len(chunks) < MaxChunks
    /\ LET upload_data == NextChunk(Len(chunks))
       IN /\ Call("chunk", upload_data)
          /\ chunks' = Append(chunks, upload_data)
    /\ UNCHANGED <<listener, r_arg, req, phase>>
    /\ UNCHANGED <<builder_vars, help_vars>>

\* the call made when the whole body has been offered
FinalizeCall ==
    /\ ~aborted
    /\ phase = "body"
    /\ Call("finalize", <<>>)
    /\ phase' = "done"
    /\ UNCHANGED <<listener, r_arg, req, chunks>>
    /\ UNCHANGED <<builder_vars, help_vars>>

\* the transport's completion notification ends the request
RequestCompleted ==
    /\ ~aborted
    /\ phase \in {"first", "body", "done"}
    /\ con_cls' = request_completed(con_cls)
    /\ phase' = "idle"
    /\ req' = NoRequest
    /\ chunks' = <<>>
    /\ upload_data_size' = 0
    /\ ret' = "none"
    /\ responses' = <<>>
    /\ invoked' = <<>>
    /\ UNCHANGED <<listener, help_page, r_arg, aborted>>
    /\ UNCHANGED <<builder_vars, help_vars>>

\* the request ends and the state is not released: the next request of the
\* connection is delivered on the same Connection State
NextRequestSameState ==
    /\ ~aborted
    /\ phase = "done"
    /\ req' = NoRequest
    /\ phase' = "idle"
    /\ chunks' = <<>>
    /\ upload_data_size' = 0
    /\ ret' = "none"
    /\ responses' = <<>>
    /\ invoked' = <<>>
    /\ UNCHANGED <<listener, help_page, r_arg, con_cls, aborted>>
    /\ UNCHANGED <<builder_vars, help_vars>>

Next ==
    \/ HttpRegisterPath
    \/ NewRequest
    \/ HeaderCall
    \/ BodyChunkCall
    \/ FinalizeCall
    \/ RequestCompleted

\* one request per Connection State: the transport releases the state when
\* the request ends
Spec == Init /\ [][Next]_vars

\* Connection State kept across the requests of a connection
SpecKeepState == Init /\ [][Next \/ NextRequestSameState]_vars

\* the requests of one client session: no Origin header, two URLs
SessionRequests ==
    {r \in Requests : r.Origin = NULL /\ r.url \in {<<"/">>, <<"/", "a", "/", "b", "/", "x">>}}

\* the transport has parsed the headers of the session's next request
NewSessionRequest ==
    /\ ~aborted
    /\ phase = "idle"
    /\ \E r \in SessionRequests : req' = r
    /\ phase' = "first"
    /\ UNCHANGED <<listener, help_page, r_arg, con_cls, chunks,
                   upload_data_size, ret, responses, invoked, aborted>>
    /\ UNCHANGED <<builder_vars, help_vars>>

NextSession ==
    \/ HttpRegisterPath
    \/ NewSessionRequest
    \/ HeaderCall
    \/ BodyChunkCall
    \/ FinalizeCall
    \/ RequestCompleted
    \/ NextRequestSameState

\* the requests of one session, on a Connection State that may be kept from
\* one request to the next
SpecSession == Init /\ [][NextSession]_vars

----------------------------------------------------------------------------
(* Routing alone: a longer registry, requests with valid credentials and   *)
(* no body                                                                 *)

RoutingRequests ==
    {r \in Requests : r.Origin = NULL /\ r.Authorization = Ptr(BasicScheme \o auth_token)}

\* the application registers a route (no dispatch call is in progress)
HttpRegisterPathRouting ==
    /\ ~aborted
    /\ phase = "idle"
    /\ Len(listener) < MaxRoutesRouting
    /\ \E a \in RouteArgs :
          listener' = http_register_path(listener, a.url, a.method, Len(listener) + 1)
    /\ UNCHANGED <<help_page, r_arg, con_cls, phase, req, chunks,
                   upload_data_size, ret, responses, invoked, aborted>>
    /\ UNCHANGED <<builder_vars, help_vars>>

\* the transport has parsed the headers of the next request
NewRoutingRequest ==
    /\ ~aborted
    /\ phase = "idle"
    /\ \E r \in RoutingRequests : req' = r
    /\ phase' = "first"
    /\ UNCHANGED <<listener, help_page, r_arg, con_cls, chunks,
                   upload_data_size, ret, responses, invoked, aborted>>
    /\ UNCHANGED <<builder_vars, help_vars>>

NextRouting ==
    \/ HttpRegisterPathRouting
    \/ NewRoutingRequest
    \/ HeaderCall
    \/ FinalizeCall
    \/ RequestCompleted

SpecRouting == Init /\ [][NextRouting]_vars

----------------------------------------------------------------------------
(* A handler building a response with the Response Builder *)

\* the connections a response is built for: they differ in the Origin header
BuilderConnections ==
    {r \in Requests : r.method = "GET" /\ r.url = <<"/">> /\ r.Authorization = NULL}

\* the (key, value) pairs a handler adds; one key comes with two values
HeaderArgs ==
    { [key |-> "Content-Type", value |-> "text/plain"],
      [key |-> "X-Seq", value |-> "1"],
      [key |-> "X-Seq", value |-> "2"] }

HttpMkresp ==
    /\ cur_resp = NULL
    /\ \E conn \in BuilderConnections, status \in {200, 404} :
          cur_resp' = Ptr(http_mkresp(conn, status, Ptr("OK")))
    /\ added' = <<>>
    /\ response' = NULL
    /\ UNCHANGED <<listener, help_page, r_arg, con_cls, phase, req, chunks,
                   upload_data_size, ret, responses, invoked, aborted, help_vars>>

HttpAddHeader ==
    /\ cur_resp # NULL
    /\ response = NULL
    /\ Len(added) < MaxHeaders
    /\ \E h \in HeaderArgs :
          /\ cur_resp' = Ptr(http_add_header(Deref(cur_resp), h.key, h.value))
          /\ added' = Append(added, h)
    /\ UNCHANGED <<listener, help_page, r_arg, con_cls, phase, req, chunks,
                   upload_data_size, ret, responses, invoked, aborted,
                   response, help_vars>>

SendResponse ==
    /\ cur_resp # NULL
    /\ response = NULL
    /\ response' = Ptr(send_response(Deref(cur_resp)))
    /\ UNCHANGED <<listener, help_page, r_arg, con_cls, phase, req, chunks,
                   upload_data_size, ret, responses, invoked, aborted,
                   cur_resp, added, help_vars>>

\* the response object is freed; what was sent stays on record
HttpFreeResp ==
    /\ cur_resp # NULL
    /\ response # NULL
    /\ cur_resp' = NULL
    /\ UNCHANGED <<listener, help_page, r_arg, con_cls, phase, req, chunks,
                   upload_data_size, ret, responses, invoked, aborted,
                   added, response, help_vars>>

NextResponse ==
    \/ HttpMkresp
    \/ HttpAddHeader
    \/ SendResponse
    \/ HttpFreeResp

\* http_mkresp, http_add_header any number of times, send_response,
\* http_free_resp, as send_auth_response and the handlers do
SpecResponse == Init /\ [][NextResponse]_vars

----------------------------------------------------------------------------
(* The help branch, run by several dispatcher threads at once: finalize    *)
(* calls of authenticated GET "/" requests of different connections that   *)
(* no route matched.  Each line of the branch is a step of its own.        *)

\* a step of the help branch leaves the rest of the program alone
HelpFrame ==
    /\ ~aborted
    /\ UNCHANGED <<listener, r_arg, con_cls, phase, req, chunks,
                   upload_data_size, ret, responses, invoked, builder_vars>>

\* a finalize call arrives at `if (http->help_page == NULL)`
HelpEnter(t) ==
    /\ HelpFrame
    /\ hpc[t] = "idle"
    /\ hpc' = [hpc EXCEPT ![t] = "test"]
    /\ hdata' = [hdata EXCEPT ![t] = NULL]
    /\ hbody' = [hbody EXCEPT ![t] = NULL]
    /\ UNCHANGED <<help_page, aborted>>

\* if (http->help_page == NULL)
HelpTest(t) ==
    /\ HelpFrame
    /\ hpc[t] = "test"
    /\ hpc' = [hpc EXCEPT ![t] = IF help_page_missing(help_page) THEN "build" ELSE "reply"]
    /\ UNCHANGED <<help_page, aborted, hdata, hbody>>

\* make_help(http) runs and returns its buffer
HelpBuild(t) ==
    /\ HelpFrame
    /\ hpc[t] = "build"
    /\ \E data \in make_help(listener) :
          IF data = NULL
          THEN /\ aborted' = TRUE
               /\ UNCHANGED <<hpc, hdata>>
          ELSE /\ hdata' = [hdata EXCEPT ![t] = data]
               /\ hpc' = [hpc EXCEPT ![t] = "store"]
               /\ UNCHANGED aborted
    /\ UNCHANGED <<help_page, hbody>>

\* http->help_page = <what make_help returned>
HelpStore(t) ==
    /\ HelpFrame
    /\ hpc[t] = "store"
    /\ help_page' = hdata[t]
    /\ hpc' = [hpc EXCEPT ![t] = "reply"]
    /\ UNCHANGED <<aborted, hdata, hbody>>

\* assert(http->help_page); return http_reply(connection, 200, http->help_page)
HelpReply(t) ==
    /\ HelpFrame
    /\ hpc[t] = "reply"
    /\ IF help_page = NULL
       THEN aborted' = TRUE /\ UNCHANGED hbody
       ELSE hbody' = [hbody EXCEPT ![t] = help_page] /\ UNCHANGED aborted
    /\ hpc' = [hpc EXCEPT ![t] = "idle"]
    /\ UNCHANGED <<help_page, hdata>>

NextHelp ==
    \/ HttpRegisterPath
    \/ \E t \in Threads : HelpEnter(t)
    \/ \E t \in Threads : HelpTest(t)
    \/ \E t \in Threads : HelpBuild(t)
    \/ \E t \in Threads : HelpStore(t)
    \/ \E t \in Threads : HelpReply(t)

\* routes are registered while no dispatch call is in progress; the help
\* branches of the threads interleave line by line
SpecHelp == Init /\ [][NextHelp]_vars

----------------------------------------------------------------------------
(* What the claims speak of, stated without the dispatcher's own loop *)

Method == parse_method(req.method)

Authenticated == con_cls # NULL /\ Deref(con_cls).authed = 1

ReadOnlyRejected == r_arg /\ Method \notin {"M_GET", "M_OPTIONS"}

\* the finalize call has passed the read-only check, the preflight branch and
\* the Auth Gate, so the registry is consulted
ReachedRoutes ==
    /\ phase = "done"
    /\ Authenticated
    /\ Method # "M_OPTIONS"
    /\ ~ReadOnlyRejected

IsPrefix(p, url) == Len(p) <= Len(url) /\ \A k \in 1..Len(p) : url[k] = p[k]

\* the URL starts with p and the next character is absent or '/'
WholeSegmentPrefix(p, url) ==
    IsPrefix(p, url) /\ (Len(url) = Len(p) \/ url[Len(p) + 1] = "/")

\* the URL starts with p and goes on with a character that is not '/'
PartialSegment(p, url) ==
    IsPrefix(p, url) /\ Len(url) > Len(p) /\ url[Len(p) + 1] # "/"

RouteMatches(lp) == Method \in lp.method /\ WholeSegmentPrefix(lp.url, req.url)

MatchingRoutes == {i \in 1..Len(listener) : RouteMatches(listener[i])}

\* the matching route registered last (cb numbers the registrations)
MostRecentMatch ==
    listener[CHOOSE i \in MatchingRoutes :
                \A j \in MatchingRoutes : listener[i].cb >= listener[j].cb]

RouteOf(c) == listener[CHOOSE i \in 1..Len(listener) : listener[i].cb = c]

OnlySlashes(s) == \A k \in 1..Len(s) : s[k] = "/"

AfterSlashRun(s) ==
    LET n == CHOOSE n \in 0..Len(s) :
                 /\ \A k \in 1..n : s[k] = "/"
                 /\ n = Len(s) \/ s[n + 1] # "/"
    IN [k \in 1..(Len(s) - n) |-> s[n + k]]

UrlAfter(p) == [k \in 1..(Len(req.url) - Len(p)) |-> req.url[Len(p) + k]]

HasHeader(r, key) == \E j \in 1..Len(r.headers) : r.headers[j].key = key

RECURSIVE Concat(_)
Concat(cs) == IF cs = <<>> THEN <<>> ELSE Head(cs) \o Concat(Tail(cs))

RECURSIVE SumLen(_)
SumLen(cs) == IF cs = <<>> THEN 0 ELSE Len(Head(cs)) + SumLen(Tail(cs))

CredentialsValid == req.Authorization = Ptr(BasicScheme \o auth_token)

----------------------------------------------------------------------------
(* C1 *)

----------------------------------------------------------------------------
(* C2 *)

\* C2: no handler is invoked for a request whose URL continues the route's
\* prefix with a character other than '/'; such a route is passed over and
\* matching goes on with the routes after it.
C2_NoPartialSegmentMatch ==
    /\ \A i \in 1..Len(invoked) :
          ~PartialSegment(RouteOf(invoked[i].cb).url, req.url)
    /\ ( /\ ReachedRoutes
         /\ Len(listener) >= 2
         /\ PartialSegment(listener[1].url, req.url)
         /\ \E j \in 2..Len(listener) : RouteMatches(listener[j]) )
       => /\ Len(invoked) = 1
          /\ invoked[1].cb # listener[1].cb
          /\ RouteMatches(RouteOf(invoked[1].cb))

\* GET /ab with /a registered after /ab: /a is passed over, /ab handles it
C2_Witness ==
    /\ ReachedRoutes
    /\ Len(listener) = 2
    /\ listener[1].url = <<"/", "a">>
    /\ Method \in listener[1].method
    /\ req.url = <<"/", "a", "b">>
    /\ Len(invoked) = 1
    /\ invoked[1].cb = listener[2].cb

----------------------------------------------------------------------------
(* C3 *)

\* C3: the handler's remainder is absent when the URL is the prefix or the
\* prefix followed only by '/' characters, and is otherwise exactly the URL
\* text after the whole run of '/' that follows the prefix; and a URL of the
\* first kind does match the route (here: the route checked first).
C3_RemainderAfterSeparators ==
    /\ \A i \in 1..Len(invoked) :
          LET rest == UrlAfter(RouteOf(invoked[i].cb).url)
          IN IF OnlySlashes(rest)
             THEN invoked[i].arg = NULL
             ELSE invoked[i].arg = Ptr(AfterSlashRun(rest))
    /\ ( /\ ReachedRoutes
         /\ listener # <<>>
         /\ Method \in listener[1].method
         /\ IsPrefix(listener[1].url, req.url)
         /\ OnlySlashes(UrlAfter(listener[1].url)) )
       => /\ Len(invoked) = 1
          /\ invoked[1].cb = listener[1].cb
          /\ invoked[1].arg = NULL

\* GET /a// handled by the route /a with no remainder
C3_Witness ==
    /\ ReachedRoutes
    /\ req.url = <<"/", "a", "/", "/">>
    /\ Len(invoked) = 1
    /\ RouteOf(invoked[1].cb).url = <<"/", "a">>
    /\ invoked[1].arg = NULL

----------------------------------------------------------------------------
(* C4 *)

\* C4 as claimed: a non-OPTIONS request without an Authorization header is
\* answered 401 with WWW-Authenticate in every configuration, read-only mode
\* and every method included.
C4_Original ==
    (phase = "done" /\ ~aborted /\ req.Authorization = NULL /\ Method # "M_OPTIONS")
    => /\ Len(responses) >= 1
       /\ \A i \in 1..Len(responses) :
             /\ responses[i].r.status = 401
             /\ HasHeader(responses[i].r, "WWW-Authenticate")

\* C4: a non-OPTIONS request without an Authorization header that read-only
\* mode does not reject (read-only mode off, or the method GET or HEAD) gets
\* one response, on the finalize call: 401 with a WWW-Authenticate header, and
\* no handler runs; one that read-only mode rejects is answered 405 instead.
C4_Unauthorized401UnlessReadOnly ==
    /\ (phase = "done" /\ req.Authorization = NULL /\ Method # "M_OPTIONS"
            /\ ~ReadOnlyRejected)
       => /\ ~aborted
          /\ Len(responses) = 1
          /\ responses[1].call = "finalize"
          /\ responses[1].r.status = 401
          /\ responses[1].r.data = Ptr(AUTH_BODY)
          /\ HasHeader(responses[1].r, "WWW-Authenticate")
          /\ invoked = <<>>
    /\ (phase = "done" /\ req.Authorization = NULL /\ ReadOnlyRejected)
       => /\ ~aborted
          /\ \A i \in 1..Len(responses) : responses[i].r.status = 405

\* read-only mode, HEAD without credentials: 401
C4_Witness ==
    /\ phase = "done"
    /\ r_arg
    /\ req.method = "HEAD"
    /\ req.Authorization = NULL
    /\ Len(responses) = 1
    /\ responses[1].r.status = 401
    /\ HasHeader(responses[1].r, "WWW-Authenticate")

----------------------------------------------------------------------------
(* C5 *)

\* C5: a finalize call whose method is OPTIONS produces exactly one response,
\* 200 with no body, whatever the URL, the registry, the credentials and the
\* read-only flag, and calls no handler.
C5_PreflightAlways200 ==
    (phase = "done" /\ Method = "M_OPTIONS")
    => /\ ~aborted
       /\ Len(responses) = 1
       /\ responses[1].call = "finalize"
       /\ responses[1].r.status = 200
       /\ responses[1].r.data = NULL
       /\ responses[1].r.ndata = 0
       /\ invoked = <<>>

\* read-only mode, no credentials, a route whose mask holds OPTIONS matches
C5_Witness ==
    /\ phase = "done"
    /\ req.method = "OPTIONS"
    /\ r_arg
    /\ req.Authorization = NULL
    /\ MatchingRoutes # {}
    /\ Len(responses) = 1
    /\ responses[1].r.status = 200

----------------------------------------------------------------------------
(* C6 *)

\* C6 as claimed: on a Connection State that an earlier request
\* authenticated, a request without an Authorization header is not answered
\* 401 and is dispatched without any failure of the dispatcher.
C6_AuthPersistsAcrossRequests ==
    (phase \in {"body", "done"} /\ req.Authorization = NULL /\ Authenticated)
    => /\ ~aborted
       /\ \A i \in 1..Len(responses) : responses[i].r.status # 401
       /\ phase = "done" => Len(responses) >= 1

----------------------------------------------------------------------------
(* C7 *)

\* C7: the body a handler is given is the concatenation of the chunks
\* offered for the request, in arrival order, and bodylen is the sum of
\* their lengths.
C7_BodyIsConcatenation ==
    \A i \in 1..Len(invoked) :
        /\ invoked[i].body # NULL
        /\ invoked[i].bodylen = SumLen(chunks)
        /\ Len(Deref(invoked[i].body)) = invoked[i].bodylen + 1
        /\ SubSeq(Deref(invoked[i].body), 1, invoked[i].bodylen) = Concat(chunks)
        /\ Deref(invoked[i].body)[invoked[i].bodylen + 1] = NUL

\* "ab", "cd", "ef" reach the handler as "abcdef", length 6
C7_Witness ==
    /\ Len(invoked) = 1
    /\ chunks = << <<"a", "b">>, <<"c", "d">>, <<"e", "f">> >>
    /\ invoked[1].body = Ptr(<<"a", "b", "c", "d", "e", "f", NUL>>)
    /\ invoked[1].bodylen = 6

----------------------------------------------------------------------------
(* C8 *)

\* C8: every response handed to the transport carries
\* Access-Control-Allow-Origin with the request's Origin value, or "*" when
\* the request has none, and the two fixed Access-Control headers.
C8_CorsHeadersOnEveryResponse ==
    \A i \in 1..Len(responses) :
        LET h == responses[i].r.headers
            origin == IF req.Origin = NULL THEN "*" ELSE req.Origin[1]
        IN /\ \E j \in 1..Len(h) : h[j].key = "Access-Control-Allow-Origin"
           /\ \A j \in 1..Len(h) :
                 h[j].key = "Access-Control-Allow-Origin" => h[j].value = origin
           /\ \E j \in 1..Len(h) :
                 h[j] = [key |-> "Access-Control-Allow-Headers",
                         value |-> "Authorization, Origin"]
           /\ \E j \in 1..Len(h) :
                 h[j] = [key |-> "Access-Control-Allow-Methods",
                         value |-> "GET, POST, PUT, DELETE, OPTIONS"]

\* a 401 for a request with an Origin header echoes it
C8_Witness ==
    /\ req.Origin = Ptr("http://o")
    /\ Len(responses) = 1
    /\ responses[1].r.status = 401
    /\ \E j \in 1..Len(responses[1].r.headers) :
          responses[1].r.headers[j] =
              [key |-> "Access-Control-Allow-Origin", value |-> "http://o"]

----------------------------------------------------------------------------
(* C9 *)

\* what a GET (or HEAD) finalize call must produce, read-only or not
GetDispatchedNormally ==
    IF ~CredentialsValid
    THEN /\ Len(responses) = 1 /\ responses[1].r.status = 401
         /\ invoked = <<>>
    ELSE IF MatchingRoutes # {}
    THEN /\ Len(invoked) = 1 /\ invoked[1].cb = MostRecentMatch.cb
         /\ \A i \in 1..Len(responses) : responses[i].r.status # 405
    ELSE IF req.url = <<"/">>
    THEN /\ Len(responses) = 1 /\ responses[1].r.status = 200
         /\ responses[1].r.data = help_page /\ help_page # NULL
         /\ invoked = <<>>
    ELSE /\ Len(responses) = 1 /\ responses[1].r.status = 500
         /\ responses[1].r.data = Ptr("Failed")
         /\ invoked = <<>>

\* C9: in read-only mode a request whose method is neither GET (HEAD counts
\* as GET) nor OPTIONS is answered 405 and calls no handler, whatever the
\* routes and the credentials; a GET is dispatched as with read-only mode off.
C9_ReadOnlyRejectsWrites ==
    /\ (r_arg /\ Method \notin {"M_GET", "M_OPTIONS"})
       => /\ ~aborted
          /\ invoked = <<>>
          /\ \A i \in 1..Len(responses) :
                /\ responses[i].r.status = 405
                /\ responses[i].r.data = Ptr("Read-only mode")
          /\ phase = "done" =>
                \E i \in 1..Len(responses) : responses[i].call = "finalize"
    /\ (phase = "done" /\ ~aborted /\ Method = "M_GET") => GetDispatchedNormally

\* read-only mode, valid credentials, PUT on a route that takes PUT: 405
C9_Witness ==
    /\ phase = "done"
    /\ r_arg
    /\ req.method = "PUT"
    /\ Authenticated
    /\ MatchingRoutes # {}
    /\ invoked = <<>>
    /\ Len(responses) = 1
    /\ responses[1].r.status = 405

----------------------------------------------------------------------------
(* C10 *)

\* C10 as claimed: no response is produced on the first call or on a
\* body-chunk call, and the finalize call produces exactly one.
C10_ExactlyOneResponseOnFinalize ==
    /\ \A i \in 1..Len(responses) : responses[i].call = "finalize"
    /\ (phase = "done" /\ ~aborted) => Len(responses) = 1

----------------------------------------------------------------------------
(* C11 *)

\* the last call made was a body-chunk call (one request per state: the
\* transport offers chunks only after the first call and before finalize)
AfterChunkCall == phase = "body" /\ chunks # <<>> /\ ~aborted

\* C11 as claimed: every body-chunk call, for every method and also in
\* read-only mode, leaves the unconsumed size at 0, returns "continue",
\* queues no response and appends the chunk iff an accumulator exists.
C11_ChunkCallConsumesAndContinues ==
    AfterChunkCall =>
        /\ upload_data_size = 0
        /\ ret = "MHD_YES"
        /\ \A i \in 1..Len(responses) : responses[i].call # "chunk"
        /\ LET con_info == Deref(con_cls)
           IN con_info.req_body # NULL =>
                 VSB_data(Deref(con_info.req_body)) = Concat(chunks)

----------------------------------------------------------------------------
(* C12 *)

\* C12: the authenticated flag is monotonic.  A step taken while the flag
\* is set leaves it set unless the step releases the state, and a call made
\* while the flag is set never answers 401, whatever Authorization header
\* the request of that call carries.
C12_AuthedMonotonic ==
    [][Authenticated =>
          /\ Authenticated' \/ con_cls' = NULL
          /\ \A i \in (Len(responses) + 1)..Len(responses') :
                 responses'[i].r.status # 401]_vars

\* a request without credentials is dispatched on a state whose flag an
\* earlier request set
C12_Witness ==
    /\ Authenticated
    /\ ~CredentialsValid
    /\ ~aborted
    /\ phase = "done"
    /\ Len(responses) > 0
    /\ \A i \in 1..Len(responses) : responses[i].r.status \in {200, 500}

----------------------------------------------------------------------------
(* C13 *)

\* the finalize call got past the Auth Gate and no route matches
NoRouteMatched == ReachedRoutes /\ MatchingRoutes = {}

\* what the finalize call answered, the process having survived the call
HelpOr500 ==
    /\ Len(responses) = 1
    /\ IF Method = "M_GET" /\ req.url = <<"/">>
       THEN /\ responses[1].r.status = 200
            /\ responses[1].r.data = help_page
            /\ help_page # NULL
            /\ listener = <<>> => help_page = Ptr(HELP_TEXT \o "\n")
       ELSE /\ responses[1].r.status = 500
            /\ responses[1].r.data = Ptr("Failed")

\* C13 as claimed: an authenticated, non-OPTIONS finalize call that no
\* route matches is answered 200 with the help page iff the method is GET
\* or HEAD and the URL is exactly "/", and 500 "Failed" otherwise; with no
\* route registered GET "/" is answered 200 with the preamble alone.
C13_HelpPageOr500 ==
    NoRouteMatched => (~aborted /\ HelpOr500)

----------------------------------------------------------------------------
(* C14 *)

\* C14: a handler runs only on a Connection State whose authenticated flag
\* is set, and a finalize call that reaches the Auth Gate with a missing
\* header, a header that is not Basic, or a wrong token is answered 401
\* and calls no handler, whatever the registry holds.
C14_NoHandlerWithoutAuth ==
    /\ invoked # <<>> => Authenticated
    /\ \A i \in 1..Len(invoked) : invoked[i].authed = 1
    /\ (phase = "done" /\ ~aborted /\ ~CredentialsValid
            /\ Method # "M_OPTIONS" /\ ~ReadOnlyRejected) =>
          /\ invoked = <<>>
          /\ Len(responses) = 1
          /\ responses[1].r.status = 401

\* a wrong token on a URL that a registered route matches: 401, no handler
C14_Witness ==
    /\ phase = "done"
    /\ req.Authorization = Ptr(BasicScheme \o <<"n", "o">>)
    /\ MatchingRoutes # {}
    /\ ~ReadOnlyRejected
    /\ invoked = <<>>
    /\ Len(responses) = 1
    /\ responses[1].r.status = 401

----------------------------------------------------------------------------
(* C15 *)

HasAccumulator(cls) == cls # NULL /\ Deref(cls).req_body # NULL

\* C15: a Connection State holds a body accumulator only if its
\* authenticated flag is set, and an accumulator comes into being only on
\* the call that creates the state, when the request of that call carries
\* valid credentials.
C15_AccumulatorOnlyIfAuthenticated ==
    [][/\ HasAccumulator(con_cls') => Deref(con_cls').authed = 1
       /\ (HasAccumulator(con_cls') /\ ~HasAccumulator(con_cls)) =>
             (con_cls = NULL /\ phase = "first" /\ CredentialsValid)]_vars

\* the state of a request with valid credentials, created with an
\* accumulator that has collected two chunks
C15_Witness ==
    /\ phase = "body"
    /\ Len(chunks) = 2
    /\ CredentialsValid
    /\ Authenticated
    /\ HasAccumulator(con_cls)
    /\ VSB_data(Deref(Deref(con_cls).req_body)) = Concat(chunks)

----------------------------------------------------------------------------
(* C16 *)

\* the three headers send_response attaches itself
IsCors(hs) ==
    /\ Len(hs) = 3
    /\ hs[1].key = "Access-Control-Allow-Headers"
    /\ hs[2].key = "Access-Control-Allow-Methods"
    /\ hs[3].key = "Access-Control-Allow-Origin"

\* C16 as claimed: the headers are handed to the transport in the order in
\* which they were added, the first added first, duplicates preserved, and
\* the three CORS headers come after them.
C16_Original ==
    response # NULL =>
        LET hs == Deref(response).headers
        IN /\ Len(hs) = Len(added) + 3
           /\ SubSeq(hs, 1, Len(added)) = added
           /\ IsCors(SubSeq(hs, Len(added) + 1, Len(hs)))

\* C16: the headers are handed to the transport in the reverse of the order
\* in which they were added (the last added first), duplicates preserved,
\* and the three CORS headers come after them.
C16_HeadersLastAddedFirst ==
    response # NULL =>
        LET hs == Deref(response).headers
        IN /\ Len(hs) = Len(added) + 3
           /\ \A k \in 1..Len(added) : hs[k] = added[Len(added) + 1 - k]
           /\ IsCors(SubSeq(hs, Len(added) + 1, Len(hs)))

\* X-Seq: 1, then Content-Type, then X-Seq: 2 were added; X-Seq: 2 is
\* handed over first and X-Seq: 1 last before the CORS headers
C16_Witness ==
    /\ response # NULL
    /\ added = << [key |-> "X-Seq", value |-> "1"],
                  [key |-> "Content-Type", value |-> "text/plain"],
                  [key |-> "X-Seq", value |-> "2"] >>
    /\ Deref(response).headers[1] = [key |-> "X-Seq", value |-> "2"]
    /\ Deref(response).headers[3] = [key |-> "X-Seq", value |-> "1"]
    /\ Len(Deref(response).headers) = 6

----------------------------------------------------------------------------
(* C17 *)

\* the first n elements of a sequence dropped
Drop(seq, n) == SubSeq(seq, n + 1, Len(seq))

\* page is the preamble, one line for each route of the registry as it
\* stood at some moment (the registry only grows, at its head), and the
\* closing newline
CompletePage(page, http_listener) ==
    /\ page # NULL
    /\ \E n \in 0..Len(http_listener) :
          Deref(page) = HELP_TEXT \o help_lines(Drop(http_listener, n)) \o "\n"

----------------------------------------------------------------------------
(* C18 *)

\* the route at place l of the list was registered after the route at
\* place e, its prefix is a whole-segment prefix of that route's prefix,
\* both masks hold the request's method, and the URL matches the route at e
Shadows(l, e) ==
    /\ l < e
    /\ WholeSegmentPrefix(listener[l].url, listener[e].url)
    /\ Method \in listener[l].method \cap listener[e].method
    /\ WholeSegmentPrefix(listener[e].url, req.url)

\* C18 as claimed: whenever L shadows E, the handler invoked for a request
\* that matches E is L's.
C18_Original ==
    ReachedRoutes =>
        \A l, e \in 1..Len(listener) :
            Shadows(l, e) =>
                /\ Len(invoked) = 1
                /\ invoked[1].cb = listener[l].cb

\* C18: whenever L shadows E, a request that matches E and gets past the
\* Auth Gate never reaches E's handler: exactly one handler runs, that of
\* the matching route registered last, which is L's unless a route
\* registered after L matches the request as well.
C18_ShadowedRouteUnreachable ==
    ReachedRoutes =>
        \A l, e \in 1..Len(listener) :
            Shadows(l, e) =>
                /\ Len(invoked) = 1
                /\ invoked[1].cb # listener[e].cb
                /\ invoked[1].cb >= listener[l].cb
                /\ invoked[1].cb = MostRecentMatch.cb
                /\ (\A n \in 1..(l - 1) : ~RouteMatches(listener[n])) =>
                       invoked[1].cb = listener[l].cb

\* /a/b registered before /a, GET /a/b/x: the handler of /a ran, with the
\* longer prefix registered and matching
C18_Witness ==
    /\ ReachedRoutes
    /\ Len(listener) = 2
    /\ listener[2].url = <<"/", "a", "/", "b">> /\ listener[2].cb = 1
    /\ listener[1].url = <<"/", "a">> /\ listener[1].cb = 2
    /\ Shadows(1, 2)
    /\ req.url = <<"/", "a", "/", "b", "/", "x">>
    /\ Len(invoked) = 1 /\ invoked[1].cb = 2
    /\ invoked[1].arg = Ptr(<<"b", "/", "x">>)

----------------------------------------------------------------------------
(* C19 *)

\* C19 as claimed: the accumulator is finished at most once between its
\* allocation and its release and is neither appended to nor finished
\* afterwards, that is, none of AZ(VSB_bcat), AZ(VSB_putc), AZ(VSB_finish)
\* ever fails, also when several dispatch sequences run on one state
\* before the completion notification.
C19_AccumulatorAssertionsHold ==
    ~(aborted /\ ret \in {"AZ(VSB_bcat)", "AZ(VSB_putc)"})

----------------------------------------------------------------------------
(* C20 *)

\* C20: whenever a handler is invoked the Connection State holds a body
\* accumulator and the handler is given it, with the length of what was
\* offered; a state created unauthenticated never becomes authenticated on
\* a later call, so no handler runs with an absent body and bodylen 0
\* after chunks were offered and consumed.
C20_HandlerHasAccumulator ==
    [][/\ (con_cls # NULL /\ ~Authenticated /\ con_cls' # NULL) =>
             Deref(con_cls').authed = 0
       /\ \A i \in 1..Len(invoked') :
             /\ HasAccumulator(con_cls')
             /\ invoked'[i].body = Ptr(VSB_data(Deref(Deref(con_cls').req_body)))
             /\ invoked'[i].bodylen = SumLen(chunks')]_vars

\* a handler runs after one chunk was offered: it is given 2 bytes
C20_Witness ==
    /\ phase = "done"
    /\ Len(chunks) = 1
    /\ Len(invoked) = 1
    /\ HasAccumulator(con_cls)
    /\ invoked[1].body = Ptr(<<"a", "b", NUL>>)
    /\ invoked[1].bodylen = 2

====
